---- MODULE Spec2Model ----
(***************************************************************************)
(* Model of the logforge pipeline: parser.py (parse_log), database.py      *)
(* (the SQLite store), summarizer.py (summarize_log) and etl_apache.py     *)
(* (extract / transform / load / run_etl_if_needed / main).                *)
(*                                                                         *)
(* Text is a sequence of one-character strings, so that the line grammar   *)
(* and str.splitlines are computed character by character.                 *)
(***************************************************************************)
EXTENDS Integers, Sequences, FiniteSets, TLC

(***************************************************************************)
(* parser.py                                                               *)
(***************************************************************************)

Digits == {"0", "1", "2", "3", "4", "5", "6", "7", "8", "9"}

Upper == {"A", "B", "C", "D", "E", "F", "G", "H", "I", "J", "K", "L", "M",
          "N", "O", "P", "Q", "R", "S", "T", "U", "V", "W", "X", "Y", "Z"}

\* the character classes of log_pattern: \d, [A-Z], [^\]], [^"]
ClsDigit == [neg |-> FALSE, chars |-> Digits]
ClsUpper == [neg |-> FALSE, chars |-> Upper]
ClsNotBracket == [neg |-> TRUE, chars |-> {"]"}]
ClsNotQuote == [neg |-> TRUE, chars |-> {"\""}]

InClass(c, cls) == IF cls.neg THEN c \notin cls.chars ELSE c \in cls.chars

\* number of consecutive characters of s, from position i on, that are in cls
RECURSIVE Span(_, _, _)
Span(s, i, cls) ==
    IF i <= Len(s) /\ InClass(s[i], cls) THEN 1 + Span(s, i + 1, cls) ELSE 0

\* A literal of the pattern at position i: the position after it, 0 when the
\* match has failed (here or earlier).
Lit(s, i, lit) ==
    IF i > 0 /\ i + Len(lit) - 1 <= Len(s) /\ SubSeq(s, i, i + Len(lit) - 1) = lit
    THEN i + Len(lit) ELSE 0

\* A greedy repetition cls{lo,hi} at position i (hi = 0: no upper limit): the
\* position after it, 0 on failure.  Every repetition of log_pattern is
\* followed by a literal outside its class, so giving characters back can
\* never turn a failure into a match.
Rep(s, i, cls, lo, hi) ==
    IF i = 0 THEN 0
    ELSE LET n == Span(s, i, cls)
             m == IF hi > 0 /\ n > hi THEN hi ELSE n
         IN  IF m >= lo THEN i + m ELSE 0

\* PATH " " PROTOCOL inside the run [from, to) of non-quote characters: PATH
\* is greedy, so the separating blank is the last one that leaves both
\* groups non-empty; 0 when there is none.
SplitAt(s, from, to) ==
    LET cand == {j \in (from + 1)..(to - 2) : s[j] = " "}
    IN  IF from = 0 \/ to = 0 \/ cand = {} THEN 0
        ELSE CHOOSE j \in cand : \A k \in cand : k <= j

\* log_pattern.match(line): [ok, entry]
log_pattern_match(line) ==
    LET a1 == Rep(line, 1, ClsDigit, 1, 3)
        a2 == Rep(line, Lit(line, a1, <<".">>), ClsDigit, 1, 3)
        a3 == Rep(line, Lit(line, a2, <<".">>), ClsDigit, 1, 3)
        a4 == Rep(line, Lit(line, a3, <<".">>), ClsDigit, 1, 3)
        b  == Lit(line, a4, <<" ", "-", " ", "-", " ", "[">>)
        tsEnd == Rep(line, b, ClsNotBracket, 1, 0)
        c  == Lit(line, tsEnd, <<"]", " ", "\"">>)
        mEnd == Rep(line, c, ClsUpper, 1, 0)
        d  == Lit(line, mEnd, <<" ">>)
        rEnd == Rep(line, d, ClsNotQuote, 3, 0)
        sp == SplitAt(line, d, rEnd)
        e  == IF sp = 0 THEN 0 ELSE Lit(line, rEnd, <<"\"", " ">>)
        stEnd == Rep(line, e, ClsDigit, 3, 3)
        f  == Lit(line, stEnd, <<" ">>)
        byEnd == Rep(line, f, ClsDigit, 1, 0)
        g  == Lit(line, byEnd, <<" ", "\"">>)
        refEnd == Rep(line, g, ClsNotQuote, 1, 0)
        h  == Lit(line, refEnd, <<"\"", " ", "\"">>)
        uaEnd == Rep(line, h, ClsNotQuote, 1, 0)
        z  == Lit(line, uaEnd, <<"\"">>)
    IN  IF z = Len(line) + 1
        THEN [ok |-> TRUE,
              entry |-> [ipaddress |-> SubSeq(line, 1, a4 - 1),
                         timestamp |-> SubSeq(line, b, tsEnd - 1),
                         method |-> SubSeq(line, c, mEnd - 1),
                         path |-> SubSeq(line, d, sp - 1),
                         protocol |-> SubSeq(line, sp + 1, rEnd - 1),
                         status_code |-> SubSeq(line, e, stEnd - 1),
                         bytes_sent |-> SubSeq(line, f, byEnd - 1),
                         referrer |-> SubSeq(line, g, refEnd - 1),
                         user_agent |-> SubSeq(line, h, uaEnd - 1)]]
        ELSE [ok |-> FALSE, entry |-> <<>>]

\* the line boundaries of str.splitlines that the model's alphabet has
LineBreaks == {"\n", "\r", "\f"}

\* str.splitlines(): "\r\n" is one boundary, and a final boundary does not
\* open another (empty) line
RECURSIVE SplitFrom(_, _)
SplitFrom(s, start) ==
    LET breaks == {j \in start..Len(s) : s[j] \in LineBreaks}
    IN  IF breaks = {}
        THEN IF start <= Len(s) THEN <<SubSeq(s, start, Len(s))>> ELSE <<>>
        ELSE LET i == CHOOSE j \in breaks : \A k \in breaks : j <= k
                 nxt == IF s[i] = "\r" /\ i < Len(s) /\ s[i + 1] = "\n"
                        THEN i + 2 ELSE i + 1
             IN  <<SubSeq(s, start, i - 1)>> \o SplitFrom(s, nxt)

\* as str.split on the boundaries would: a final boundary opens an empty line
splitlines_trailing(s) ==
    IF Len(s) > 0 /\ s[Len(s)] \in LineBreaks
    THEN Append(SplitFrom(s, 1), <<>>) ELSE SplitFrom(s, 1)

splitlines(s) == SplitFrom(s, 1)

\* the loop of parse_log over the lines: <<log_entries, error_entries>>
RECURSIVE ParseLines(_, _, _, _)
ParseLines(lines, k, log_es, error_es) ==
    IF k > Len(lines) THEN <<log_es, error_es>>
    ELSE LET m == log_pattern_match(lines[k])
         IN  IF m.ok
             THEN ParseLines(lines, k + 1, Append(log_es, m.entry), error_es)
             ELSE ParseLines(lines, k + 1, log_es, Append(error_es, lines[k]))

parse_log(log_content) == ParseLines(splitlines(log_content), 1, <<>>, <<>>)

(***************************************************************************)
(* database.py: the rows that the two bulk inserts write                   *)
(***************************************************************************)

DigitSeq == <<"0", "1", "2", "3", "4", "5", "6", "7", "8", "9">>

DigitVal(c) == (CHOOSE i \in 1..Len(DigitSeq) : DigitSeq[i] = c) - 1

\* The columns status_code and bytes_sent are declared INTEGER: SQLite stores
\* the captured digit text as the integer it denotes.
RECURSIVE ToInt(_)
ToInt(s) ==
    IF s = <<>> THEN 0
    ELSE ToInt(SubSeq(s, 1, Len(s) - 1)) * 10 + DigitVal(s[Len(s)])

\* the parameter tuple insert_log_entries builds from one entry, as stored
LogRow(entry) ==
    [ipaddress |-> entry.ipaddress, timestamp |-> entry.timestamp,
     method |-> entry.method, path |-> entry.path,
     protocol |-> entry.protocol, status_code |-> ToInt(entry.status_code),
     bytes_sent |-> ToInt(entry.bytes_sent), referrer |-> entry.referrer,
     user_agent |-> entry.user_agent]

LogRows(entries) == [k \in 1..Len(entries) |-> LogRow(entries[k])]

\* insert_error_entries: parse_log hands over bare lines, stored as
\* (str(error), ''); created_at defaults to the time of the insert
ErrorRows(error_entries, t) ==
    [k \in 1..Len(error_entries) |->
        [raw_line |-> error_entries[k], error_message |-> <<>>, created_at |-> t]]

(***************************************************************************)
(* summarizer.py: the three grouped-count queries                          *)
(***************************************************************************)

\* LIMIT 10 of the two ranked queries
TopLimit == 10

Reverse(q) == [k \in 1..Len(q) |-> q[Len(q) + 1 - k]]

\* the distinct values of q, in order of first occurrence
RECURSIVE Distinct(_)
Distinct(q) ==
    IF q = <<>> THEN <<>>
    ELSE LET d == Distinct(SubSeq(q, 1, Len(q) - 1))
         IN  IF \E k \in 1..Len(d) : d[k] = q[Len(q)] THEN d
             ELSE Append(d, q[Len(q)])

Column(rows, col) == [k \in 1..Len(rows) |-> rows[k][col]]

\* SELECT col, COUNT(*) ... GROUP BY col.  SQL leaves the order of the groups
\* open; tie selects one of two orders (first occurrence, or its reverse).
GroupCount(rows, col, tie) ==
    LET vals == Column(rows, col)
        ks == IF tie = "first" THEN Distinct(vals) ELSE Reverse(Distinct(vals))
    IN  [k \in 1..Len(ks) |->
            [key |-> ks[k],
             count |-> Cardinality({i \in 1..Len(vals) : vals[i] = ks[k]})]]

\* ORDER BY count DESC: groups of equal count keep the order they arrive in
RECURSIVE InsertDesc(_, _)
InsertDesc(sorted, g) ==
    IF sorted = <<>> THEN <<g>>
    ELSE IF sorted[Len(sorted)].count >= g.count THEN Append(sorted, g)
         ELSE Append(InsertDesc(SubSeq(sorted, 1, Len(sorted) - 1), g),
                     sorted[Len(sorted)])

RECURSIVE OrderByCountDesc(_)
OrderByCountDesc(groups) ==
    IF groups = <<>> THEN <<>>
    ELSE InsertDesc(OrderByCountDesc(SubSeq(groups, 1, Len(groups) - 1)),
                    groups[Len(groups)])

\* the ranked query without its LIMIT
Limit_none(q, n) == q

Limit(q, n) == SubSeq(q, 1, IF Len(q) < n THEN Len(q) ELSE n)

\* the dictionary summarize_log returns when the three queries succeed
summarize_log(rows, tie) ==
    LET top_endpoints == Limit(OrderByCountDesc(GroupCount(rows, "path", tie)), TopLimit)
        status_code_distribution == GroupCount(rows, "status_code", tie)
        top_client_ips == Limit(OrderByCountDesc(GroupCount(rows, "ipaddress", tie)), TopLimit)
    IN  [returned |-> "Summary",
         top_endpoints |->
            [k \in 1..Len(top_endpoints) |->
                [path |-> top_endpoints[k].key, count |-> top_endpoints[k].count]],
         status_code_distribution |->
            [k \in 1..Len(status_code_distribution) |->
                [status_code |-> status_code_distribution[k].key,
                 count |-> status_code_distribution[k].count]],
         top_client_ips |->
            [k \in 1..Len(top_client_ips) |->
                [ipaddress |-> top_client_ips[k].key, count |-> top_client_ips[k].count]]]

(***************************************************************************)
(* Inputs: log lines and file contents                                     *)
(***************************************************************************)

\* one line in the canonical form of the grammar
AccessLine(ip, path, status) ==
    ip \o <<" ", "-", " ", "-", " ", "[", "t", "]", " ", "\"", "G", "E", "T", " ">>
       \o path
       \o <<" ", "H", "\"", " ">> \o status
       \o <<" ", "5", " ", "\"", "-", "\"", " ", "\"", "c", "\"">>

IpA == <<"1", ".", "2", ".", "3", ".", "4">>
IpB == <<"1", "0", ".", "0", ".", "0", ".", "7">>
PathIndex == <<"/", "i", "n", "d", "e", "x", ".", "h", "t", "m", "l">>
PathAbout == <<"/", "a", "b", "o", "u", "t">>
Status200 == <<"2", "0", "0">>
Status404 == <<"4", "0", "4">>

LineIndex == AccessLine(IpA, PathIndex, Status200)
LineAbout == AccessLine(IpB, PathAbout, Status404)
\* a path with a blank in it still matches; a fifth address group does not
LineBlank == AccessLine(IpA, <<"/", "a", " ", "b">>, Status200)
LineDrift == AccessLine(IpA \o <<".", "5">>, PathIndex, Status200)
LineBad == <<"b", "a", "d">>
NL == <<"\n">>
CRLF == <<"\r", "\n">>

\* the contents the source file takes in the pipeline
SrcContents ==
    { <<>>,
      LineIndex \o NL,
      LineBad \o NL,
      LineIndex \o CRLF \o LineBad \o NL \o LineAbout }

(***************************************************************************)
(* Bounds                                                                  *)
(***************************************************************************)

MaxTime == 2
MaxRuns == 2

(***************************************************************************)
(* State                                                                   *)
(***************************************************************************)

VARIABLES
    now,            \* the clock that stamps file modification times
    src,            \* the source log file: [exists, mtime, content]
    db,             \* the store artifact: [exists, mtime, mode, schema, logs, errors]
    pc,             \* where the running process stands; "idle" between runs
    first_run,      \* args.first_run
    decision,       \* what run_etl_if_needed decided: "none", "skip", "load"
    log_content,    \* extract's result
    parsed_entries, \* transform's results
    error_entries,
    tx,             \* rows written on load's connection and not yet committed
    handles,        \* the store handles that are open, by the function that opened them
    logged,         \* the messages logged in the current run
    raised,         \* the function whose exception ended the run, "" if none
    summary,        \* what summarize_log returned in the current run
    runs,           \* history: runs started
    loads,          \* history: loads committed
    lastLoaded,     \* history: the log entries of the most recent committed load
    rowsAtOpen,     \* history: rows of logs when load opened the store
    lastRun         \* history: [loaded, rows] of the most recent load phase

envVars == <<now, src, db>>
runVars == <<pc, first_run, decision, log_content, parsed_entries, error_entries,
             tx, handles, logged, raised, summary>>
histVars == <<runs, loads, lastLoaded, rowsAtOpen, lastRun>>
vars == <<envVars, runVars, histVars>>

NoSummary == [returned |-> "not_called", top_endpoints |-> <<>>,
              status_code_distribution |-> <<>>, top_client_ips |-> <<>>]

NoTx == [logs |-> <<>>, errors |-> <<>>]

Modes == {"rw", "ro", "noaccess"}

NoStore == [exists |-> FALSE, mtime |-> 0, mode |-> "rw", schema |-> FALSE,
            logs |-> <<>>, errors |-> <<>>]

NoRun == [loaded |-> FALSE, rows |-> 0]

\* the process at position p of a run, holding content, with the store d
Start(p, content, d) ==
    /\ now = 0
    /\ src = [exists |-> FALSE, mtime |-> 0, content |-> <<>>]
    /\ db = d
    /\ pc = p
    /\ first_run = FALSE
    /\ decision = "none"
    /\ log_content = content
    /\ parsed_entries = <<>>
    /\ error_entries = <<>>
    /\ tx = NoTx
    /\ handles = {}
    /\ logged = {}
    /\ raised = ""
    /\ summary = NoSummary
    /\ runs = 0
    /\ loads = 0
    /\ lastLoaded = <<>>
    /\ rowsAtOpen = 0
    /\ lastRun = NoRun

\* no run yet, no log file, no store artifact
Init == Start("idle", <<>>, NoStore)

(***************************************************************************)
(* database.py: the store                                                  *)
(***************************************************************************)

\* sqlite3.connect succeeds: the file can be opened, or can be created
CanOpen(d) == d.mode # "noaccess" /\ (d.exists \/ d.mode = "rw")

\* the artifact after a successful connect: a missing file is created empty
Connected(d, t) == IF d.exists THEN d ELSE [d EXCEPT !.exists = TRUE, !.mtime = t]

\* create_table: CREATE TABLE IF NOT EXISTS for logs and errors, then commit;
\* an sqlite3.Error (a store that cannot be written) is printed and swallowed
create_table(d, t) ==
    IF d.schema \/ d.mode # "rw" THEN d
    ELSE [d EXCEPT !.schema = TRUE, !.mtime = t]

\* the comparison with > for >=
is_db_up_to_date_strict(d, s) ==
    IF d.exists /\ s.exists THEN d.mtime > s.mtime ELSE FALSE

\* os.path.getmtime of both paths; any exception gives False
is_db_up_to_date(d, s) ==
    IF d.exists /\ s.exists THEN d.mtime >= s.mtime ELSE FALSE

\* the except branch answering False
is_db_empty_optimistic(conn, d) ==
    IF conn /\ d.schema THEN Len(d.logs) = 0 ELSE FALSE

\* SELECT COUNT(*) FROM logs on conn (FALSE: create_connection returned None);
\* any exception gives True
is_db_empty(conn, d) ==
    IF conn /\ d.schema THEN Len(d.logs) = 0 ELSE TRUE

\* insert_log_entries committing its own rows
insert_log_entries_committing(d, pending, entries) ==
    [db |-> [d EXCEPT !.logs = @ \o LogRows(entries)], tx |-> pending]

\* insert_log_entries on a store that takes the write: the rows are pending
\* on the connection; the function itself does not commit
insert_log_entries(d, pending, entries) ==
    [db |-> d, tx |-> [pending EXCEPT !.logs = LogRows(entries)]]

\* conn.commit() of load: the pending rows reach the artifact
Commit(d, pending, t) ==
    IF pending = NoTx THEN d
    ELSE [d EXCEPT !.logs = @ \o pending.logs, !.errors = @ \o pending.errors,
                   !.mtime = t]

(***************************************************************************)
(* The environment, between two runs of the process                        *)
(***************************************************************************)

Tick ==
    /\ pc = "idle"
    /\ now < MaxTime
    /\ now' = now + 1
    /\ UNCHANGED <<src, db, runVars, histVars>>

\* the log file is written (or written again with the same text)
WriteSource(content) ==
    /\ pc = "idle"
    /\ src' = [exists |-> TRUE, mtime |-> now, content |-> content]
    /\ lastRun' = NoRun
    /\ UNCHANGED <<now, db, runVars, runs, loads, lastLoaded, rowsAtOpen>>

RemoveSource ==
    /\ pc = "idle"
    /\ src.exists
    /\ src' = [exists |-> FALSE, mtime |-> 0, content |-> <<>>]
    /\ lastRun' = NoRun
    /\ UNCHANGED <<now, db, runVars, runs, loads, lastLoaded, rowsAtOpen>>

\* the access rights of the store path change
Chmod(mode) ==
    /\ pc = "idle"
    /\ mode # db.mode
    /\ db' = [db EXCEPT !.mode = mode]
    /\ lastRun' = NoRun
    /\ UNCHANGED <<now, src, runVars, runs, loads, lastLoaded, rowsAtOpen>>

(***************************************************************************)
(* etl_apache.py: one run of main                                          *)
(***************************************************************************)

\* the process starts with the parsed arguments
StartMain(fr) ==
    /\ pc = "idle"
    /\ runs < MaxRuns
    /\ runs' = runs + 1
    /\ pc' = "main"
    /\ first_run' = fr
    /\ UNCHANGED <<envVars, decision, log_content, parsed_entries, error_entries,
                   tx, handles, logged, raised, summary,
                   loads, lastLoaded, rowsAtOpen, lastRun>>

\* main, line 133: print(is_db_empty(create_connection(args.db))).  The
\* connection is never closed; whether the dropped object is finalized (and
\* so closed) before main returns is left to the interpreter.
Main ==
    /\ pc = "main"
    /\ \E collected \in BOOLEAN :
         IF CanOpen(db)
         THEN /\ db' = Connected(db, now)
              /\ handles' = IF collected THEN handles ELSE handles \cup {"main"}
         ELSE UNCHANGED <<db, handles>>
    /\ pc' = "run_etl_if_needed"
    /\ UNCHANGED <<now, src, first_run, decision, log_content, parsed_entries,
                   error_entries, tx, logged, raised, summary, histVars>>

\* run_etl_if_needed, lines 103-115: the freshness decision.  On a skip it
\* returns and main calls summarize; otherwise it goes on to extract.
RunEtlIfNeeded ==
    /\ pc = "run_etl_if_needed"
    /\ LET db_exists == db.exists
           conn == db_exists /\ CanOpen(db)
           db_up_to_date == IF db_exists THEN is_db_up_to_date(db, src) ELSE FALSE
           db_empty == IF db_exists THEN is_db_empty(conn, db) ELSE TRUE
       IN  /\ \E collected \in BOOLEAN :
                handles' = IF conn /\ ~collected
                           THEN handles \cup {"run_etl_if_needed"} ELSE handles
           /\ IF first_run /\ db_exists /\ db_up_to_date /\ ~db_empty
              THEN /\ decision' = "skip"
                   /\ pc' = "summarize"
                   /\ logged' = logged \cup
                        {"First run, but DB already populated and up-to-date. Skipping ETL."}
              ELSE IF ~first_run /\ db_exists /\ db_up_to_date /\ ~db_empty
              THEN /\ decision' = "skip"
                   /\ pc' = "summarize"
                   /\ logged' = logged \cup
                        {"DB is already populated and up-to-date. Skipping ETL."}
              ELSE /\ decision' = "load"
                   /\ pc' = "extract"
                   /\ logged' = logged \cup {"Running ETL process..."}
    /\ UNCHANGED <<envVars, first_run, log_content, parsed_entries, error_entries,
                   tx, raised, summary, histVars>>

\* extract: the content of the log file; an unreadable file raises
Extract ==
    /\ pc = "extract"
    /\ IF src.exists
       THEN /\ log_content' = src.content
            /\ pc' = "transform"
            /\ UNCHANGED raised
       ELSE /\ pc' = "crashed"
            /\ raised' = "extract"
            /\ UNCHANGED log_content
    /\ lastRun' = NoRun
    /\ UNCHANGED <<envVars, first_run, decision, parsed_entries, error_entries,
                   tx, handles, logged, summary, runs, loads, lastLoaded, rowsAtOpen>>

\* transform: parse_log over the content
Transform ==
    /\ pc = "transform"
    /\ parsed_entries' = parse_log(log_content)[1]
    /\ error_entries' = parse_log(log_content)[2]
    /\ pc' = "load"
    /\ UNCHANGED <<envVars, first_run, decision, log_content, tx, handles, logged,
                   raised, summary, histVars>>

\* load, lines 62-63 and 71: create_connection.  With no connection load
\* logs the error and returns, and run_etl_if_needed logs line 119.
LoadConnect ==
    /\ pc = "load"
    /\ rowsAtOpen' = Len(db.logs)
    /\ IF CanOpen(db)
       THEN /\ db' = Connected(db, now)
            /\ handles' = handles \cup {"load"}
            /\ pc' = "create_table"
            /\ UNCHANGED logged
       ELSE /\ logged' = logged \cup {"Failed to connect to the database",
                                      "ETL process completed successfully."}
            /\ pc' = "summarize"
            /\ UNCHANGED <<db, handles>>
    /\ UNCHANGED <<now, src, first_run, decision, log_content, parsed_entries,
                   error_entries, tx, raised, summary, runs, loads, lastLoaded, lastRun>>

\* load, line 64
CreateTable ==
    /\ pc = "create_table"
    /\ db' = create_table(db, now)
    /\ pc' = "insert_log_entries"
    /\ UNCHANGED <<now, src, first_run, decision, log_content, parsed_entries,
                   error_entries, tx, handles, logged, raised, summary, histVars>>

\* insert_log_entries: nothing for an empty list; otherwise executemany on the
\* connection, without a commit.  It raises when the table is missing, the
\* store cannot be written, or the write fails (io_ok false).
InsertLogEntries ==
    /\ pc = "insert_log_entries"
    /\ IF parsed_entries = <<>>
       THEN /\ pc' = "insert_error_entries"
            /\ UNCHANGED <<db, tx, raised>>
       ELSE \E io_ok \in BOOLEAN :
              IF db.schema /\ db.mode = "rw" /\ io_ok
              THEN /\ db' = insert_log_entries(db, tx, parsed_entries).db
                   /\ tx' = insert_log_entries(db, tx, parsed_entries).tx
                   /\ pc' = "insert_error_entries"
                   /\ UNCHANGED raised
              ELSE /\ pc' = "crashed"
                   /\ raised' = "insert_log_entries"
                   /\ UNCHANGED <<db, tx>>
    /\ UNCHANGED <<now, src, first_run, decision, log_content, parsed_entries,
                   error_entries, handles, logged, summary, histVars>>

\* insert_error_entries: the same for the errors table
InsertErrorEntries ==
    /\ pc = "insert_error_entries"
    /\ IF error_entries = <<>>
       THEN /\ pc' = "commit"
            /\ UNCHANGED <<tx, raised>>
       ELSE \E io_ok \in BOOLEAN :
              IF db.schema /\ db.mode = "rw" /\ io_ok
              THEN /\ tx' = [tx EXCEPT !.errors = ErrorRows(error_entries, now)]
                   /\ pc' = "commit"
                   /\ UNCHANGED raised
              ELSE /\ pc' = "crashed"
                   /\ raised' = "insert_error_entries"
                   /\ UNCHANGED tx
    /\ UNCHANGED <<envVars, first_run, decision, log_content, parsed_entries,
                   error_entries, handles, logged, summary, histVars>>

\* load, lines 67-69, and run_etl_if_needed, line 119
LoadCommit ==
    /\ pc = "commit"
    /\ db' = Commit(db, tx, now)
    /\ tx' = NoTx
    /\ handles' = handles \ {"load"}
    /\ logged' = logged \cup {"Loaded entries into the database",
                              "ETL process completed successfully."}
    /\ pc' = "summarize"
    /\ loads' = loads + 1
    /\ lastLoaded' = parsed_entries
    /\ lastRun' = [loaded |-> TRUE, rows |-> Len(parsed_entries)]
    /\ UNCHANGED <<now, src, first_run, decision, log_content, parsed_entries,
                   error_entries, raised, summary, runs, rowsAtOpen>>

\* summarize and summarize_log: None without a connection; the first query
\* raises when the logs table does not exist
Summarize ==
    /\ pc = "summarize"
    /\ IF ~CanOpen(db)
       THEN /\ summary' = [NoSummary EXCEPT !.returned = "None"]
            /\ logged' = logged \cup
                 {"Failed to connect to the database for summarization",
                  "No summary generated, possibly due to database connection issues"}
            /\ pc' = "done"
            /\ UNCHANGED <<db, handles, raised>>
       ELSE IF ~db.schema
       THEN /\ db' = Connected(db, now)
            /\ handles' = handles \cup {"summarize_log"}
            /\ pc' = "crashed"
            /\ raised' = "summarize_log"
            /\ UNCHANGED <<summary, logged>>
       ELSE /\ \E tie \in {"first", "last"} : summary' = summarize_log(db.logs, tie)
            /\ logged' = logged \cup {"Log summary generated successfully",
                                      "Summary saved"}
            /\ pc' = "done"
            /\ UNCHANGED <<db, handles, raised>>
    /\ UNCHANGED <<now, src, first_run, decision, log_content, parsed_entries,
                   error_entries, tx, histVars>>

\* the process ends (main returned, or an exception reached the top level):
\* its memory is gone, open handles are released and pending rows rolled back
Finish ==
    /\ pc \in {"done", "crashed"}
    /\ pc' = "idle"
    /\ first_run' = FALSE
    /\ decision' = "none"
    /\ log_content' = <<>>
    /\ parsed_entries' = <<>>
    /\ error_entries' = <<>>
    /\ tx' = NoTx
    /\ handles' = {}
    /\ logged' = {}
    /\ raised' = ""
    /\ summary' = NoSummary
    /\ UNCHANGED <<envVars, histVars>>

Next ==
    \/ Tick
    \/ \E content \in SrcContents : WriteSource(content)
    \/ RemoveSource
    \/ \E mode \in Modes : Chmod(mode)
    \/ \E fr \in BOOLEAN : StartMain(fr)
    \/ Main
    \/ RunEtlIfNeeded
    \/ Extract
    \/ Transform
    \/ LoadConnect
    \/ CreateTable
    \/ InsertLogEntries
    \/ InsertErrorEntries
    \/ LoadCommit
    \/ Summarize
    \/ Finish

Spec == Init /\ [][Next]_vars

(***************************************************************************)
(* parse_log on its own: transform applied to bounded texts                *)
(***************************************************************************)

MaxPieces == 3

Pieces == {LineIndex, LineBlank, LineDrift, LineBad, <<"\n">>, <<"\r">>, <<"\f">>}

\* the texts made of at most n pieces
RECURSIVE Texts(_)
Texts(n) ==
    IF n = 0 THEN {<<>>}
    ELSE Texts(n - 1) \cup {t \o piece : t \in Texts(n - 1), piece \in Pieces}

InitParse == \E content \in Texts(MaxPieces) : Start("transform", content, NoStore)

SpecParse == InitParse /\ [][Transform]_vars

(***************************************************************************)
(* summarize_log on its own: summarize applied to bounded logs tables      *)
(***************************************************************************)

MaxBatches == 3

\* str(n)
RECURSIVE Decimal(_)
Decimal(n) ==
    IF n < 10 THEN <<DigitSeq[n + 1]>>
    ELSE Decimal(n \div 10) \o <<DigitSeq[(n % 10) + 1]>>

PathN(n) == <<"/", "p">> \o Decimal(n)

RECURSIVE JoinLines(_)
JoinLines(lines) ==
    IF lines = <<>> THEN <<>>
    ELSE JoinLines(SubSeq(lines, 1, Len(lines) - 1)) \o lines[Len(lines)] \o NL

\* three hits of /index.html and one of /about
ScenarioContent == JoinLines(<<LineIndex, LineIndex, LineAbout, LineIndex>>)

\* one hit for each of TopLimit + 1 paths
WideContent ==
    JoinLines([n \in 1..(TopLimit + 1) |-> AccessLine(IpA, PathN(n), Status200)])

Batches ==
    {LogRows(parse_log(content)[1]) :
        content \in {ScenarioContent, WideContent, LineAbout,
                     AccessLine(IpB, PathN(1), Status404),
                     AccessLine(IpB, PathN(TopLimit + 1), Status404)}}

\* the tables that at most n loads leave
RECURSIVE Tables(_)
Tables(n) ==
    IF n = 0 THEN {<<>>}
    ELSE Tables(n - 1) \cup {t \o batch : t \in Tables(n - 1), batch \in Batches}

InitAgg ==
    \E rows \in Tables(MaxBatches) :
        Start("summarize", <<>>,
              [exists |-> TRUE, mtime |-> 0, mode |-> "rw", schema |-> TRUE,
               logs |-> rows, errors |-> <<>>])

SpecAgg == InitAgg /\ [][Summarize]_vars

(***************************************************************************)
(* Properties                                                              *)
(***************************************************************************)

\* the state in which run_etl_if_needed has just taken its decision
JustGated == pc = "extract" \/ (pc = "summarize" /\ decision = "skip")

C2_ForceLoads == JustGated /\ first_run => decision = "load"

\* C3: between runs and when main has returned, the logs table holds exactly
\* the matched records of the content of the most recent load.
C3_NoMerge == pc \in {"idle", "done"} => db.logs = LogRows(lastLoaded)

\* the lines of a text, counted from its line boundaries
NumLines(s) ==
    Cardinality({i \in 1..Len(s) :
                    /\ s[i] \in LineBreaks
                    /\ ~(s[i] = "\n" /\ i > 1 /\ s[i - 1] = "\r")})
    + (IF Len(s) > 0 /\ s[Len(s)] \notin LineBreaks THEN 1 ELSE 0)

\* C4: parse_log gives one record per line of the text, a log entry or an
\* error entry (a line that does not match); an empty text gives two empty
\* sequences.
C4_Partition ==
    pc = "load" =>
        /\ Len(parsed_entries) + Len(error_entries) = NumLines(log_content)
        /\ \A k \in 1..Len(error_entries) : ~log_pattern_match(error_entries[k]).ok
        /\ log_content = <<>> => parsed_entries = <<>> /\ error_entries = <<>>

C4_Witness ==
    /\ pc = "load"
    /\ Len(parsed_entries) >= 1
    /\ Len(error_entries) >= 1
    /\ \E i \in 1..(Len(log_content) - 1) :
          log_content[i] = "\r" /\ log_content[i + 1] = "\n"

HitsOf(rows, path) == Cardinality({i \in 1..Len(rows) : rows[i].path = path})

\* C5: top_endpoints has at most 10 entries, with distinct paths, counts in
\* non-increasing order, each count the number of rows of its path, and no
\* path left out that has more rows than a listed one; three /index.html
\* rows and one /about row give [{/index.html, 3}, {/about, 1}].
C5_TopEndpoints ==
    summary.returned = "Summary" =>
        LET top == summary.top_endpoints
            rows == db.logs
        IN  /\ Len(top) <= 10
            /\ \A i, j \in 1..Len(top) :
                  i < j => top[i].path # top[j].path /\ top[i].count >= top[j].count
            /\ \A i \in 1..Len(top) : top[i].count = HitsOf(rows, top[i].path)
            /\ \A r \in 1..Len(rows) :
                  (\A i \in 1..Len(top) : top[i].path # rows[r].path)
                  => \A i \in 1..Len(top) : HitsOf(rows, rows[r].path) <= top[i].count
            /\ rows = LogRows(parse_log(ScenarioContent)[1])
               => top = <<[path |-> PathIndex, count |-> 3],
                          [path |-> PathAbout, count |-> 1]>>

C5_Witness ==
    /\ summary.returned = "Summary"
    /\ Len(summary.top_endpoints) = 10
    /\ \E r \in 1..Len(db.logs) :
          /\ \A i \in 1..Len(summary.top_endpoints) :
                summary.top_endpoints[i].path # db.logs[r].path
    /\ summary.top_endpoints[1].count > summary.top_endpoints[10].count

\* C6: the decision is to skip exactly when the store artifact exists, is at
\* least as recent as the source, and its logs table can be counted and has
\* a row; a failed stat or a failed count leads to a load.
C6_SkipOnlyWhenFresh ==
    JustGated =>
        (decision = "skip" <=>
            /\ db.exists /\ src.exists /\ db.mtime >= src.mtime
            /\ CanOpen(db) /\ db.schema /\ Len(db.logs) >= 1)

C6_Witness ==
    /\ JustGated
    /\ decision = "load"
    /\ db.exists /\ src.exists /\ db.mtime >= src.mtime
    /\ ~CanOpen(db) /\ Len(db.logs) >= 1

\* C7: when load gets no connection, the run does not report success and
\* summarization is not attempted.
C7_ConnectFailureReported ==
    "Failed to connect to the database" \in logged =>
        /\ "ETL process completed successfully." \notin logged
        /\ pc # "summarize"
        /\ summary.returned = "not_called"

\* C8: on a store without log rows summarize_log returns three empty
\* aggregates and does not raise.
C8_EmptyStoreSummary ==
    Len(db.logs) = 0 =>
        /\ raised # "summarize_log"
        /\ summary.returned = "Summary" =>
              /\ summary.top_endpoints = <<>>
              /\ summary.status_code_distribution = <<>>
              /\ summary.top_client_ips = <<>>

\* C9, as stated: when insert_log_entries has completed and
\* insert_error_entries then fails, the log rows stay in the store.
C9_Original ==
    pc = "crashed" /\ raised = "insert_error_entries" /\ parsed_entries # <<>>
        => Len(db.logs) = rowsAtOpen + Len(parsed_entries)

\* C9, amended: the rows insert_log_entries writes are pending until load's
\* one commit after both inserts; when insert_error_entries fails they are
\* not in the store.
C9_SingleCommit ==
    /\ pc \in {"insert_error_entries", "commit"} => Len(db.logs) = rowsAtOpen
    /\ pc = "crashed" /\ raised = "insert_error_entries" => Len(db.logs) = rowsAtOpen
    /\ "Loaded entries into the database" \in logged
         => Len(db.logs) = rowsAtOpen + Len(parsed_entries)

C9_Witness ==
    pc = "crashed" /\ raised = "insert_error_entries" /\ parsed_entries # <<>>

\* C10: when main returns, no store handle opened during the run is open.
C10_HandlesClosed == pc = "done" => handles = {}

====
